---- MODULE Spec2Model ----
(***************************************************************************)
(* A model of sahi/prediction.py: PredictionScore, ObjectPrediction and    *)
(* PredictionInput.                                                        *)
(*                                                                         *)
(* Representation                                                          *)
(*   - Python None is the empty tuple <<>>; an optional object is <<>> or  *)
(*     the one-element tuple <<obj>>; an optional [h, w] list is <<>> or   *)
(*     <<h, w>>.                                                           *)
(*   - A float is an integer number of fixed-point units, or, after a      *)
(*     division, a reduced fraction <<num, den>>; 0/0 is the value NaN.    *)
(*   - A numeric value that may be a numpy scalar is [kind, val].          *)
(*   - A boolean mask array is the set of its True pixels <<x, y>>.        *)
(*   - An image is [shape |-> <<H, W, C>>, data |-> row-major pixels].     *)
(*   - The objects live in a heap: heap[i] is the object with identity i.  *)
(***************************************************************************)
EXTENDS Integers, Sequences, FiniteSets, TLC

VARIABLES
    heap,      \* the ObjectPrediction objects allocated so far, by identity
    parent,    \* history: parent[i] = the object heap[i] was shifted from, 0 if constructed by the caller
    last,      \* history: the last call made on the heap
    ps,        \* a stand-alone PredictionScore object, <<>> before construction
    cmp,       \* the last is_greater_than_threshold call on ps: <<>> or <<[threshold, result]>>
    call,      \* the arguments of the PredictionInput construction, <<>> before the call
    pinput     \* the outcome of the PredictionInput construction, <<>> before the call

vars == <<heap, parent, last, ps, cmp, call, pinput>>

None == <<>>

-----------------------------------------------------------------------------
(* Bounds of the model *)

MaxCoord == 1
MaxShift == 2
MaxRecords == 3
MaxScore == 10
MaxImages == 2

-----------------------------------------------------------------------------
(* PredictionScore *)

\* numpy scalar .tolist(): the same value as a plain python number
tolist(x) == [kind |-> "python", val |-> x.val]

PredictionScore_init(score) ==
    [score |-> IF score.kind = "numpy" THEN tolist(score) ELSE score]

\* variant: a score equal to the threshold counts as above it
is_greater_or_equal_threshold(self, threshold) == self.score.val >= threshold

is_greater_than_threshold(self, threshold) == self.score.val > threshold

-----------------------------------------------------------------------------
(* sahi.annotation: BoundingBox, Mask, Category, ObjectAnnotation *)

BoundingBox_init(bbox, shift_amount) ==
    [minx |-> bbox[1], miny |-> bbox[2], maxx |-> bbox[3], maxy |-> bbox[4],
     shift_x |-> shift_amount[1], shift_y |-> shift_amount[2]]

get_shifted_box(box) ==
    BoundingBox_init(<<box.minx + box.shift_x, box.miny + box.shift_y,
                       box.maxx + box.shift_x, box.maxy + box.shift_y>>,
                     <<0, 0>>)

to_voc_bbox(box) == <<box.minx, box.miny, box.maxx, box.maxy>>

Mask_init(bool_mask, shift_amount, full_image_size) ==
    [bool_mask |-> bool_mask,
     shift_x |-> shift_amount[1], shift_y |-> shift_amount[2],
     full_image_size |-> full_image_size]

get_shifted_mask(mask) ==
    Mask_init({<<p[1] + mask.shift_x, p[2] + mask.shift_y>> : p \in mask.bool_mask},
              <<0, 0>>, mask.full_image_size)

get_full_image_size(mask) == mask.full_image_size

Category_init(id, name) == [id |-> id, name |-> name]

ObjectAnnotation_init(bbox, category_id, bool_mask, category_name, shift_amount, full_image_size) ==
    [bbox |-> BoundingBox_init(bbox, shift_amount),
     mask |-> IF bool_mask = None THEN None
              ELSE <<Mask_init(bool_mask[1], shift_amount, full_image_size)>>,
     category |-> Category_init(category_id, category_name),
     shift_amount |-> shift_amount,
     full_image_size |-> full_image_size]

-----------------------------------------------------------------------------
(* ObjectPrediction *)

DefaultShiftAmount == <<0, 0>>
DefaultFullImageSize == <<1024, 1024>>

\* the object: the fields the base class sets, and the score
ObjectPrediction_init(bbox, score, category_id, category_name, bool_mask, shift_amount, full_image_size) ==
    LET base == ObjectAnnotation_init(bbox, category_id, bool_mask, category_name,
                                      shift_amount, full_image_size)
    IN  [score |-> PredictionScore_init(score),
         bbox |-> base.bbox,
         mask |-> base.mask,
         category |-> base.category,
         shift_amount |-> base.shift_amount,
         full_image_size |-> base.full_image_size]

\* a Mask object is truthy, None is not
Truthy(m) == m # None

\* variant: the box is passed on without get_shifted_box()
get_shifted_unshifted_bbox(self) ==
    IF Truthy(self.mask)
    THEN ObjectPrediction_init(
             to_voc_bbox(self.bbox), self.score.score,
             self.category.id, self.category.name,
             <<get_shifted_mask(self.mask[1]).bool_mask>>,
             <<0, 0>>,
             get_full_image_size(get_shifted_mask(self.mask[1])))
    ELSE ObjectPrediction_init(
             to_voc_bbox(self.bbox), self.score.score,
             self.category.id, self.category.name,
             None, <<0, 0>>, None)

\* variant: a record with a mask keeps its shift_amount
get_shifted_keeps_shift_masked(self) ==
    IF Truthy(self.mask)
    THEN ObjectPrediction_init(
             to_voc_bbox(get_shifted_box(self.bbox)), self.score.score,
             self.category.id, self.category.name,
             <<get_shifted_mask(self.mask[1]).bool_mask>>,
             self.shift_amount,
             get_full_image_size(get_shifted_mask(self.mask[1])))
    ELSE ObjectPrediction_init(
             to_voc_bbox(get_shifted_box(self.bbox)), self.score.score,
             self.category.id, self.category.name,
             None, <<0, 0>>, None)

\* variant: a record without a mask keeps its shift_amount
get_shifted_keeps_shift_maskless(self) ==
    IF Truthy(self.mask)
    THEN ObjectPrediction_init(
             to_voc_bbox(get_shifted_box(self.bbox)), self.score.score,
             self.category.id, self.category.name,
             <<get_shifted_mask(self.mask[1]).bool_mask>>,
             <<0, 0>>,
             get_full_image_size(get_shifted_mask(self.mask[1])))
    ELSE ObjectPrediction_init(
             to_voc_bbox(get_shifted_box(self.bbox)), self.score.score,
             self.category.id, self.category.name,
             None, self.shift_amount, None)

\* variant: a record without a mask keeps its full_image_size
get_shifted_keeps_full_image_size(self) ==
    IF Truthy(self.mask)
    THEN ObjectPrediction_init(
             to_voc_bbox(get_shifted_box(self.bbox)), self.score.score,
             self.category.id, self.category.name,
             <<get_shifted_mask(self.mask[1]).bool_mask>>,
             <<0, 0>>,
             get_full_image_size(get_shifted_mask(self.mask[1])))
    ELSE ObjectPrediction_init(
             to_voc_bbox(get_shifted_box(self.bbox)), self.score.score,
             self.category.id, self.category.name,
             None, <<0, 0>>, self.full_image_size)

get_shifted_object_prediction(self) ==
    IF Truthy(self.mask)
    THEN ObjectPrediction_init(
             to_voc_bbox(get_shifted_box(self.bbox)),
             self.score.score,
             self.category.id,
             self.category.name,
             <<get_shifted_mask(self.mask[1]).bool_mask>>,
             <<0, 0>>,
             get_full_image_size(get_shifted_mask(self.mask[1])))
    ELSE ObjectPrediction_init(
             to_voc_bbox(get_shifted_box(self.bbox)),
             self.score.score,
             self.category.id,
             self.category.name,
             None,
             <<0, 0>>,
             None)

\* variant: the shift is also written back into the object it is called on
CallShiftedInPlace(h, i) ==
    Append([h EXCEPT ![i] = get_shifted_object_prediction(h[i])],
           get_shifted_object_prediction(h[i]))

\* r.get_shifted_object_prediction() on the object with identity i:
\* the result is a newly allocated object, the heap is otherwise untouched
CallShifted(h, i) == Append(h, get_shifted_object_prediction(h[i]))


-----------------------------------------------------------------------------
(* The callers of PredictionScore and ObjectPrediction *)

Coords == 0 .. MaxCoord
Boxes == Coords \X Coords \X Coords \X Coords
ShiftAmounts == (0 .. MaxShift) \X (0 .. MaxShift)
ScoreInputs == [kind : {"numpy", "python"}, val : 0 .. MaxScore]
Thresholds == 0 .. MaxScore
RecordScores == {s \in ScoreInputs : (s.kind = "numpy" /\ s.val = MaxScore)
                                     \/ (s.kind = "python" /\ s.val = 0)}
Categories == {<<0, None>>, <<1, <<"car">>>>}
BoolMasks == {None, <<{}>>, <<{<<0, 0>>}>>, <<{<<0, 0>>, <<1, 0>>}>>}
FullImageSizes == {None, DefaultFullImageSize, <<8, 6>>}

Init ==
    /\ heap = <<>>
    /\ parent = <<>>
    /\ last = <<"none">>
    /\ ps = None
    /\ cmp = None
    /\ call = None
    /\ pinput = None

\* the caller wraps one raw detection of a tile: ObjectPrediction(...)
Construct ==
    /\ Len(heap) = 0
    /\ \E bbox \in Boxes, score \in RecordScores, cat \in Categories,
          bool_mask \in BoolMasks,
          shift_amount \in ShiftAmounts \cup {DefaultShiftAmount},
          full_image_size \in FullImageSizes :
          /\ bool_mask # None => full_image_size # None
          /\ heap' = Append(heap, ObjectPrediction_init(bbox, score, cat[1], cat[2],
                                     bool_mask, shift_amount, full_image_size))
          /\ parent' = Append(parent, 0)
          /\ last' = <<"construct", Len(heap) + 1>>
    /\ UNCHANGED <<ps, cmp, call, pinput>>

\* heap[i].get_shifted_object_prediction()
Shift ==
    /\ Len(heap) < MaxRecords
    /\ \E i \in DOMAIN heap :
          /\ heap' = CallShifted(heap, i)
          /\ parent' = Append(parent, i)
          /\ last' = <<"shift", i, Len(heap') >>
    /\ UNCHANGED <<ps, cmp, call, pinput>>

NextOP == Construct \/ Shift

SpecOP == Init /\ [][NextOP]_vars

\* PredictionScore(score)
NewScore ==
    /\ ps = None
    /\ \E score \in ScoreInputs :
          /\ ps' = <<PredictionScore_init(score)>>
          /\ last' = <<"PredictionScore", score.kind, score.val>>
    /\ UNCHANGED <<heap, parent, cmp, call, pinput>>

\* ps.is_greater_than_threshold(threshold)
CheckThreshold ==
    /\ ps # None
    /\ \E threshold \in Thresholds :
          cmp' = <<[threshold |-> threshold,
                    result |-> is_greater_than_threshold(ps[1], threshold)]>>
    /\ UNCHANGED <<heap, parent, last, ps, call, pinput>>

NextScore == NewScore \/ CheckThreshold

SpecScore == Init /\ [][NextScore]_vars

-----------------------------------------------------------------------------
(* numpy and sahi.utils.torch, as PredictionInput uses them *)

RECURSIVE GCD(_, _)
GCD(a, b) == IF b = 0 THEN a ELSE GCD(b, a % b)

NaN == <<0, 0>>

\* true division of two non-negative numbers: x / 0 is inf, 0 / 0 is nan,
\* and no exception is raised
TrueDiv(p, m) ==
    IF m = 0 THEN (IF p = 0 THEN NaN ELSE <<1, 0>>)
    ELSE <<p \div GCD(p, m), m \div GCD(p, m)>>

RECURSIVE SeqMax(_)
SeqMax(q) ==
    IF Len(q) = 1 THEN q[1]
    ELSE LET m == SeqMax(Tail(q)) IN IF q[1] > m THEN q[1] ELSE m

np_max(image) == SeqMax(image.data)

\* image / np.max(image), element by element
Normalize(image) ==
    [shape |-> image.shape,
     data |-> [k \in DOMAIN image.data |-> TrueDiv(image.data[k], np_max(image))]]

\* position of element (h, w, c) in the row-major data of an H x W x C array
IndexHWC(shape, h, w, c) == ((h - 1) * shape[2] + (w - 1)) * shape[3] + c

\* H x W x C array to C x H x W tensor
to_float_tensor(image) ==
    LET H == image.shape[1]
        W == image.shape[2]
        C == image.shape[3]
    IN  [shape |-> <<C, H, W>>,
         data |-> [k \in 1 .. C * H * W |->
                     image.data[IndexHWC(image.shape,
                                         ((k - 1) % (H * W)) \div W + 1,
                                         ((k - 1) % W) + 1,
                                         (k - 1) \div (H * W) + 1)]]]

\* stacking along a new leading dimension; tensors of different shapes cannot be stacked
torch_stack(tensors) ==
    IF \A i \in DOMAIN tensors : tensors[i].shape = tensors[1].shape
    THEN <<[shape |-> <<Len(tensors)>> \o tensors[1].shape,
            data |-> [i \in DOMAIN tensors |-> tensors[i].data]]>>
    ELSE None

-----------------------------------------------------------------------------
(* PredictionInput *)

\* the loop of __init__: one normalized tensor per image, in image_list order
ImageTensorList(image_list) ==
    [i \in DOMAIN image_list |-> to_float_tensor(Normalize(image_list[i]))]

\* "if shift_amount_list:" is false for None and for the empty list
ListTruthy(arg) == arg # None /\ Len(arg[1]) > 0

\* variant: the default is the single offset [[0, 0]], whatever the number of images
ShiftAmountListSingle(image_list, shift_amount_list) ==
    IF ListTruthy(shift_amount_list) THEN shift_amount_list[1]
    ELSE << <<0, 0>> >>

ShiftAmountList(image_list, shift_amount_list) ==
    IF ListTruthy(shift_amount_list) THEN shift_amount_list[1]
    ELSE [ind \in 1 .. Len(image_list) |-> <<0, 0>>]

\* the outcome of PredictionInput(image_list, shift_amount_list, full_image_size):
\* the object, or the exception that left no object
PredictionInput_init(image_list, shift_amount_list, full_image_size) ==
    LET batch_image_tensor == torch_stack(ImageTensorList(image_list))
    IN  IF batch_image_tensor = None
        THEN [status |-> "raised", self |-> None]
        ELSE [status |-> "constructed",
              self |-> <<[image_list |-> image_list,
                          batch_image_tensor |-> batch_image_tensor[1],
                          shift_amount_list |->
                              ShiftAmountList(image_list, shift_amount_list),
                          full_image_size |-> full_image_size]>>]

Pixels == {0, 1, 2}
ImageShapes == {<<1, 1, 2>>, <<1, 1, 1>>}
Images ==
    UNION {[shape : {sh}, data : [1 .. sh[1] * sh[2] * sh[3] -> Pixels]] : sh \in ImageShapes}
TileOffsets == {<<0, 0>>, <<100, 0>>, <<0, 100>>}

SeqsUpTo(S, lo, hi) == UNION {[1 .. n -> S] : n \in lo .. hi}

\* the caller assembles one batch: PredictionInput(...)
NewPredictionInput ==
    /\ call = None
    /\ \E image_list \in SeqsUpTo(Images, 1, MaxImages),
          shift_amount_list \in
              {None} \cup {<<l>> : l \in SeqsUpTo(TileOffsets, 0, MaxImages + 1)},
          full_image_size \in {None, <<8, 6>>} :
          /\ call' = <<[image_list |-> image_list,
                        shift_amount_list |-> shift_amount_list,
                        full_image_size |-> full_image_size]>>
          /\ pinput' = <<PredictionInput_init(image_list, shift_amount_list,
                                              full_image_size)>>
    /\ UNCHANGED <<heap, parent, last, ps, cmp>>

NextPI == NewPredictionInput

SpecPI == Init /\ [][NextPI]_vars

-----------------------------------------------------------------------------
(* Properties of get_shifted_object_prediction, under SpecOP *)

\* heap[i] is the result of a get_shifted_object_prediction() call
IsShifted(i) == parent[i] # 0

\* the caller-constructed record a chain of shifts started from
RECURSIVE Root(_)
Root(i) == IF parent[i] = 0 THEN i ELSE Root(parent[i])

\* C1: the box of a shifted record is the box of the record it was shifted from,
\* translated by that record's shift_amount, with or without a mask
C1_ShiftedBoxIsTranslated ==
    \A i \in DOMAIN heap :
        IsShifted(i) =>
            LET r == heap[parent[i]]
                dx == r.shift_amount[1]
                dy == r.shift_amount[2]
            IN  to_voc_bbox(heap[i].bbox) =
                    <<r.bbox.minx + dx, r.bbox.miny + dy,
                      r.bbox.maxx + dx, r.bbox.maxy + dy>>

C1_Witness ==
    \E i \in DOMAIN heap :
        /\ IsShifted(i)
        /\ heap[parent[i]].shift_amount = <<1, 2>>
        /\ heap[parent[i]].mask # None
        /\ to_voc_bbox(heap[parent[i]].bbox) = <<0, 0, 1, 1>>
        /\ to_voc_bbox(heap[i].bbox) = <<1, 2, 2, 3>>

\* C3: a shifted record has shift_amount [0, 0], whatever the shift_amount and
\* the mask of the record it was shifted from
C3_ShiftedHasZeroShift ==
    \A i \in DOMAIN heap :
        IsShifted(i) =>
            /\ heap[i].shift_amount = <<0, 0>>
            /\ heap[i].bbox.shift_x = 0 /\ heap[i].bbox.shift_y = 0
            /\ heap[i].mask # None =>
                   heap[i].mask[1].shift_x = 0 /\ heap[i].mask[1].shift_y = 0

C3_Witness ==
    \E i \in DOMAIN heap :
        /\ IsShifted(i)
        /\ heap[parent[i]].shift_amount = <<2, 1>>
        /\ heap[parent[i]].mask # None
        /\ heap[i].shift_amount = <<0, 0>>

\* C5: a get_shifted_object_prediction() call leaves every field of the record
\* it is called on (and of every other record) as it was, and its result is a
\* new object
C5_ShiftDoesNotMutate ==
    [][last'[1] = "shift" =>
          /\ \A i \in DOMAIN heap :
                /\ heap'[i].bbox = heap[i].bbox
                /\ heap'[i].mask = heap[i].mask
                /\ heap'[i].score = heap[i].score
                /\ heap'[i].category = heap[i].category
                /\ heap'[i].shift_amount = heap[i].shift_amount
                /\ heap'[i].full_image_size = heap[i].full_image_size
          /\ last'[2] \in DOMAIN heap
          /\ last'[3] \notin DOMAIN heap
          /\ last'[3] \in DOMAIN heap']_vars

C5_Witness ==
    /\ last[1] = "shift"
    /\ heap[last[2]].shift_amount # <<0, 0>>
    /\ heap[last[2]].mask # None
    /\ heap[last[3]].bbox # heap[last[2]].bbox
    /\ last[3] # last[2]

C10_ShiftedOnce ==
    \A i \in DOMAIN heap :
        (IsShifted(i) /\ heap[Root(i)].mask = None) =>
            LET r == heap[Root(i)]
                dx == r.shift_amount[1]
                dy == r.shift_amount[2]
            IN  to_voc_bbox(heap[i].bbox) =
                    <<r.bbox.minx + dx, r.bbox.miny + dy,
                      r.bbox.maxx + dx, r.bbox.maxy + dy>>

C10_Witness ==
    \E i \in DOMAIN heap :
        /\ IsShifted(i) /\ IsShifted(parent[i])
        /\ heap[Root(i)].mask = None
        /\ heap[Root(i)].shift_amount = <<2, 2>>
        /\ to_voc_bbox(heap[Root(i)].bbox) = <<0, 1, 1, 1>>
        /\ to_voc_bbox(heap[i].bbox) = <<2, 3, 3, 3>>

-----------------------------------------------------------------------------
(* Properties of PredictionScore, under SpecScore *)

\* C4: PredictionScore(s).is_greater_than_threshold(t) is true exactly when
\* s > t; it is false when s = t
C4_StrictlyGreater ==
    (cmp # None) =>
        /\ cmp[1].result = TRUE <=> last[3] > cmp[1].threshold
        /\ last[3] = cmp[1].threshold => cmp[1].result = FALSE

C4_Witness ==
    /\ cmp # None
    /\ last[2] = "numpy"
    /\ last[3] = cmp[1].threshold
    /\ cmp[1].result = FALSE

-----------------------------------------------------------------------------
(* Properties of PredictionInput, under SpecPI *)

Constructed == pinput # None /\ pinput[1].status = "constructed"

\* C2: a supplied shift_amount_list whose length differs from that of
\* image_list makes the construction fail, and no object whose two lists
\* differ in length is produced
C2_LengthMismatchRaises ==
    (pinput # None) =>
        /\ (call[1].shift_amount_list # None
            /\ Len(call[1].shift_amount_list[1]) # Len(call[1].image_list))
               => pinput[1].status = "raised"
        /\ Constructed =>
               Len(pinput[1].self[1].image_list) =
                   Len(pinput[1].self[1].shift_amount_list)

\* C7: without a shift_amount_list, N images give N offsets [0, 0]
C7_DefaultOffsets ==
    (Constructed /\ call[1].shift_amount_list = None) =>
        /\ Len(pinput[1].self[1].shift_amount_list) = Len(call[1].image_list)
        /\ \A i \in 1 .. Len(call[1].image_list) :
               pinput[1].self[1].shift_amount_list[i] = <<0, 0>>

C7_Witness ==
    /\ Constructed
    /\ call[1].shift_amount_list = None
    /\ Len(call[1].image_list) = 2
    /\ pinput[1].self[1].shift_amount_list = << <<0, 0>>, <<0, 0>> >>

\* element (c, h, w) of batch entry i
BatchAt(i, c, h, w) ==
    LET t == pinput[1].self[1].batch_image_tensor
    IN  t.data[i][((c - 1) * t.shape[3] + (h - 1)) * t.shape[4] + w]

\* C8: the batch of N same-shaped images has leading dimension N, entry i is
\* image_list[i] divided by its own maximum, and every batch index i has its
\* offset shift_amount_list[i], the supplied one when offsets were supplied
C8_BatchAlignedWithOffsets ==
    Constructed =>
        LET self == pinput[1].self[1]
            N == Len(call[1].image_list)
        IN  /\ self.batch_image_tensor.shape[1] = N
            /\ Len(self.batch_image_tensor.data) = N
            /\ \A i \in 1 .. N :
                  LET img == call[1].image_list[i]
                  IN  /\ \A h \in 1 .. img.shape[1], w \in 1 .. img.shape[2],
                            c \in 1 .. img.shape[3] :
                            BatchAt(i, c, h, w) =
                                TrueDiv(img.data[IndexHWC(img.shape, h, w, c)],
                                        np_max(img))
                      /\ i \in DOMAIN self.shift_amount_list
                      /\ ListTruthy(call[1].shift_amount_list) =>
                             self.shift_amount_list[i] =
                                 call[1].shift_amount_list[1][i]

\* C9: an image whose maximum is zero makes the construction fail, and no
\* constructed batch holds a NaN
C9_ZeroImageRaises ==
    (pinput # None) =>
        /\ (\E i \in DOMAIN call[1].image_list : np_max(call[1].image_list[i]) = 0)
               => pinput[1].status = "raised"
        /\ Constructed =>
               \A i \in DOMAIN pinput[1].self[1].batch_image_tensor.data :
                   \A k \in DOMAIN pinput[1].self[1].batch_image_tensor.data[i] :
                       pinput[1].self[1].batch_image_tensor.data[i][k] # NaN

====
